---------------------------- MODULE Spec2Model ----------------------------
(***************************************************************************)
(* A model of kudu::hms::MiniHms (src/kudu/hms/mini_hms.{h,cc}): the       *)
(* supervisor of one external Hive Metastore process.  The state is the    *)
(* object's fields, the operating system's view of the child processes it  *)
(* spawned, the two generated config files, and the ambient environment    *)
(* (environment variables, directories) that Start() reads.                *)
(*                                                                         *)
(* Every public method is one action: the caller is single-threaded and    *)
(* each method runs to completion.  A failed CHECK aborts the whole        *)
(* program; it is recorded as the result "CheckFailed" and no method runs  *)
(* afterwards.                                                             *)
(***************************************************************************)
EXTENDS Integers, Sequences, FiniteSets, TLC

\* ------------------------------------------------------------------ bounds

\* How many child processes the instance may spawn in one behaviour.
MaxSpawns == 2

\* How many times the ambient environment (variables, directories) changes.
MaxEnvChanges == 2

\* ------------------------------------------------------ program constants

kHmsStartTimeoutMs == 60000

\* notification_log_ttl_ = MonoDelta::FromSeconds(86400)
kDefaultNotificationLogTtlSecs == 86400

\* ------------------------------------------------------------- text tools

Digits == <<"0", "1", "2", "3", "4", "5", "6", "7", "8", "9">>

\* std::to_string / strings::Substitute of a non-negative integer.
RECURSIVE IntToStr(_)
IntToStr(n) ==
    IF n < 10 THEN Digits[n + 1]
    ELSE IntToStr(n \div 10) \o Digits[(n % 10) + 1]

\* strings::Substitute of a bool.
BoolToStr(b) == IF b THEN "true" ELSE "false"

LowerChars == <<"a", "b", "c", "d", "e", "f", "g", "h", "i", "j", "k", "l", "m",
                "n", "o", "p", "q", "r", "s", "t", "u", "v", "w", "x", "y", "z">>
UpperChars == <<"A", "B", "C", "D", "E", "F", "G", "H", "I", "J", "K", "L", "M",
                "N", "O", "P", "Q", "R", "S", "T", "U", "V", "W", "X", "Y", "Z">>

ToUpperChar(c) ==
    IF \E i \in 1..26 : LowerChars[i] = c
    THEN UpperChars[CHOOSE i \in 1..26 : LowerChars[i] = c]
    ELSE c

\* ToUpperCase(name, &name_upper): a name is a sequence of characters.
ToUpperCase(name) == [i \in 1..Len(name) |-> ToUpperChar(name[i])]

\* The std::string a sequence of characters spells.
RECURSIVE Chars(_)
Chars(s) == IF s = <<>> THEN "" ELSE Head(s) \o Chars(Tail(s))

\* JoinPathSegments(a, b)
JoinPathSegments(a, b) == a \o "/" \o b

\* ---------------------------------------------------------------- Status

OK == [code |-> "OK", msg |-> ""]
StatusOf(code, msg) == [code |-> code, msg |-> msg]

\* Status::NotFound(msg, msg2)
NotFound(msg, msg2) == StatusOf("NotFound", msg \o ": " \o msg2)

\* RETURN_NOT_OK_PREPEND: the status that is returned when s is not OK.
Prepend(s, msg) == StatusOf(s.code, msg \o ": " \o s.msg)

\* A failed CHECK(cond): the program aborts.
CheckFailed(cond) == StatusOf("CheckFailed", "Check failed: " \o cond)

\* ------------------------------------------------------------ value sets

\* The ports the metastore may pick when it is launched with "-p 0".
Ports == {9083, 9084}

\* When a spawned child binds its port, in milliseconds after the readiness
\* wait began; NeverBinds: it does not bind at all.
NeverBinds == 0 - 1
BindTimes == {59999, 60001, NeverBinds}

\* Arguments of SetNotificationLogTtl, in seconds.
TtlArgs == {3600}

\* Arguments of EnableKerberos: <<krb5_conf, service_principal, keytab_file,
\* protection>>.
KrbArgs ==
    { <<"/etc/krb5.conf", "hive/127.0.0.1", "/keys/hive.keytab", "kPrivacy">>,
      <<"/alt/krb5.conf", "hms/127.0.0.1", "/keys/hms.keytab", "kIntegrity">>,
      <<"", "hive/127.0.0.1", "/keys/hive.keytab", "kPrivacy">>,
      <<"/etc/krb5.conf", "", "/keys/hive.keytab", "kPrivacy">>,
      <<"/etc/krb5.conf", "hive/127.0.0.1", "", "kPrivacy">> }

\* rpc::SaslProtection::name_of
SaslProtectionNameOf(p) ==
    CASE p = "kAuthentication" -> "authentication"
      [] p = "kIntegrity" -> "integrity"
      [] p = "kPrivacy" -> "privacy"

\* The dependencies Start() resolves, as character sequences.
kHadoop == <<"h", "a", "d", "o", "o", "p">>
kHive == <<"h", "i", "v", "e">>
kJava == <<"j", "a", "v", "a">>

\* DirName(exe) of env->GetExecutablePath()
BinDir == "/opt/bin"

\* GetTestDataDirectory()
TestDataDirectory == "/tmp/test-data"

\* The value an environment variable may be overridden with.
OverrideDir == "/alt/home"

EnvVarNames == {"HADOOP_HOME", "HIVE_HOME", "JAVA_HOME"}
DefaultDirs == {"/opt/bin/hadoop-home", "/opt/bin/hive-home", "/opt/bin/java-home"}

\* The numbers the model prints, and their decimal text (IntToStr, once).
Printed == Ports \cup {0, kDefaultNotificationLogTtlSecs} \cup TtlArgs
Decimal == [n \in Printed |-> IntToStr(n)]

\* The names Start() resolves, and the override variable of each
\* (ToUpperCase and Substitute("$0_HOME", name_upper), once).
Dependencies == {kHadoop, kHive, kJava}

\* The variable name built from the name as given, not upper-cased.
HomeVar_NoUpper == [name \in Dependencies |-> Chars(name) \o "_HOME"]

HomeVar == [name \in Dependencies |-> Chars(ToUpperCase(name)) \o "_HOME"]
HomeDirName == [name \in Dependencies |-> Chars(name) \o "-home"]

\* ----------------------------------------------------------------- state

VARIABLES
    hms_process_,           \* std::unique_ptr<Subprocess>: [held, pid]
    notification_log_ttl_,  \* seconds
    port_,                  \* uint16_t
    krb5_conf_,
    service_principal_,
    keytab_file_,
    protection_,
    procs,                  \* the OS process table of the spawned children
    nspawned,               \* how many children were spawned so far
    launch,                 \* argv and environment of the latest Subprocess
    files,                  \* hive-site.xml and core-site.xml in tmp_dir
    environ,                \* the ambient environment variables
    fs,                     \* the directories that exist
    envChanges,             \* how often environ or fs changed
    last,                   \* the latest call: its name, result and effects
    start_called,           \* history: Start() was called at least once
    run_ok,                 \* history: the held handle is of a Start() that returned OK
    cycle_port,             \* history: port of a completed Start()/Stop() cycle, or 0
    stop_failed             \* history: a Stop() returned an error

fields == <<hms_process_, notification_log_ttl_, port_, krb5_conf_,
            service_principal_, keytab_file_, protection_>>
security == <<krb5_conf_, service_principal_, keytab_file_, protection_>>
os == <<procs, nspawned, launch, files>>
ambient == <<environ, fs, envChanges>>
history == <<start_called, run_ok, cycle_port, stop_failed>>
vars == <<fields, os, ambient, last, history>>

\* An environment variable that is not set.
Unset == [set |-> FALSE, value |-> ""]

NoProcess == [held |-> FALSE, pid |-> 0]

NoFile == [exists |-> FALSE, props |-> <<>>]

NoLaunch == [argv |-> <<>>, env_vars |-> <<>>]

\* The lifecycle state of the instance: Stopped when it holds no process
\* handle; Running or Paused when it holds the handle of a Start() that
\* returned OK, by whether the child is suspended; Failed when it holds the
\* handle of a Start() that returned an error.
State ==
    CASE ~hms_process_.held -> "Stopped"
      [] ~run_ok -> "Failed"
      [] procs[hms_process_.pid] = "stopped" -> "Paused"
      [] OTHER -> "Running"

\* The record of a call: the method, its arguments, the Status it returned
\* (or the CHECK that failed), the signals it sent, the child it spawned and
\* when that child bound its port; and of the state it was made in, the
\* lifecycle state (before) and whether it repeats a call of the same method
\* that had just failed (retry).  waitFrom is the time in ms from the start
\* of a Start() to its call of WaitForTcpBind, from which bindAt counts.
Call(op, args, result, signals, spawned, bindAt) ==
    [op |-> op, args |-> args, result |-> result, signals |-> signals,
     spawned |-> spawned, bindAt |-> bindAt, before |-> State,
     retry |-> (last.op = op /\ last.result.code # "OK"),
     waitFrom |-> 0]

\* The environments the program may be started in: every dependency in its
\* default place; the hive directory missing; JAVA_HOME overridden with a
\* directory that does not exist.
InitialEnvironments ==
    {[environ |-> [v \in EnvVarNames |-> Unset], fs |-> DefaultDirs],
     [environ |-> [v \in EnvVarNames |-> Unset],
      fs |-> DefaultDirs \ {"/opt/bin/hive-home"}],
     [environ |-> [v \in EnvVarNames |->
                     IF v = "JAVA_HOME" THEN [set |-> TRUE, value |-> OverrideDir]
                     ELSE Unset],
      fs |-> DefaultDirs]}

Init ==
    /\ hms_process_ = NoProcess
    /\ notification_log_ttl_ = kDefaultNotificationLogTtlSecs
    /\ port_ = 0
    /\ krb5_conf_ = ""
    /\ service_principal_ = ""
    /\ keytab_file_ = ""
    /\ protection_ = "kAuthentication"
    /\ procs = [p \in 1..MaxSpawns |-> "unborn"]
    /\ nspawned = 0
    /\ launch = NoLaunch
    /\ files = [hive_site |-> NoFile, core_site |-> NoFile]
    /\ \E e \in InitialEnvironments : environ = e.environ /\ fs = e.fs
    /\ envChanges = 0
    /\ last = [op |-> "MiniHms", args |-> <<>>, result |-> OK, signals |-> <<>>,
               spawned |-> 0, bindAt |-> NeverBinds, before |-> "Stopped",
               retry |-> FALSE, waitFrom |-> 0]
    /\ start_called = FALSE
    /\ run_ok = FALSE
    /\ cycle_port = 0
    /\ stop_failed = FALSE

\* The program is still running: no CHECK has failed and the instance has
\* not been destroyed.
Live == last.result.code # "CheckFailed" /\ last.op # "~MiniHms"


\* ------------------------------------------------- the child processes

\* The states of a child in the OS process table: not yet spawned, running,
\* suspended by SIGSTOP, exited but not waited for, waited for.
Alive(pid) == pid # 0 /\ procs[pid] \in {"running", "stopped"}

\* Sent(pid, sig, delivered): one kill(2) of the call's signal log.
Sent(pid, sig, delivered) == [pid |-> pid, sig |-> sig, delivered |-> delivered]

\* Subprocess::Kill(sig) on handle h: the Status it returns when the OS
\* delivers the signal (delivered) or refuses to.  A handle whose Start()
\* never succeeded has no process to signal.
SubprocessKill(h, delivered) ==
    IF h.pid # 0 /\ delivered THEN OK
    ELSE StatusOf("RuntimeError", "Unable to kill")

\* The process table after signal sig was delivered to pid.
Signalled(table, pid, sig) ==
    CASE sig = "SIGSTOP" /\ table[pid] = "running" ->
            [table EXCEPT ![pid] = "stopped"]
      [] sig = "SIGCONT" /\ table[pid] = "stopped" ->
            [table EXCEPT ![pid] = "running"]
      [] OTHER -> table

\* Subprocess::KillAndWait(sig) on handle h.  outcome: "ok" (signal delivered,
\* exit awaited and reaped), "kill_failed" or "wait_failed".  A handle with
\* no running process is not an error.
KillWaitOutcomes == {"ok", "kill_failed", "wait_failed"}

SubprocessKillAndWait(h, outcome) ==
    CASE h.pid = 0 -> OK
      [] outcome = "ok" -> OK
      [] outcome = "kill_failed" -> StatusOf("RuntimeError", "Unable to kill")
      [] outcome = "wait_failed" -> StatusOf("RuntimeError", "Unable to wait")

\* The process table after KillAndWait.
KilledAndWaited(table, h, outcome) ==
    IF h.pid # 0 /\ outcome = "ok" THEN [table EXCEPT ![h.pid] = "reaped"]
    ELSE table

\* The port named on a command line, as the child parses it.
ParsePort(s) == CHOOSE p \in Ports \cup {0} : Decimal[p] = s

\* The port a child binds when it does: the one on its command line, or one
\* of its own choosing (eph) when that is 0.
BoundPort(argv, eph) ==
    IF ParsePort(argv[Len(argv)]) = 0 THEN eph ELSE ParsePort(argv[Len(argv)])

\* WaitForTcpBind(pid, &port, timeout): OK when the child is seen listening
\* within the timeout, and then *port is the port it listens on.
WaitForTcpBind(bindAt, timeoutMs) ==
    IF bindAt # NeverBinds /\ bindAt < timeoutMs THEN OK
    ELSE StatusOf("TimedOut", "Timed out waiting for process to bind to a port")

\* ------------------------------------------------------------ FindHomeDir

\* A getenv that finds no variable set.
Getenv_Ignored(name) == Unset

\* std::getenv: [set, value]; set is FALSE for nullptr.
Getenv(name) == IF name \in DOMAIN environ THEN environ[name] ELSE Unset

\* Env::Default()->FileExists(path)
FileExists(path) == path \in fs

\* A FindHomeDir without the FileExists check.
FindHomeDir_NoCheck(name, bin_dir) ==
    LET env_var == HomeVar[name]
        env == Getenv(env_var)
        home_dir == IF ~env.set
                    THEN JoinPathSegments(bin_dir, HomeDirName[name])
                    ELSE env.value
    IN  [status |-> OK, home_dir |-> home_dir]

FindHomeDir(name, bin_dir) ==
    LET env_var == HomeVar[name]
        env == Getenv(env_var)
        home_dir == IF ~env.set
                    THEN JoinPathSegments(bin_dir, HomeDirName[name])
                    ELSE env.value
    IN  [status |-> IF ~FileExists(home_dir)
                    THEN NotFound(env_var \o " directory does not exist", home_dir)
                    ELSE OK,
         home_dir |-> home_dir]

\* -------------------------------------------------------- the config files

\* MonoDelta::ToSeconds of notification_log_ttl_
ToSeconds(ttl) == ttl

\* A CreateHiveSite that passes the keytab and the principal to Substitute
\* in each other's place.
HiveSiteContents_SwappedArgs(tmp_dir) ==
    [exists |-> TRUE,
     props |-> <<
        <<"datanucleus.schema.autoCreateAll", "true">>,
        <<"hive.metastore.schema.verification", "false">>,
        <<"hive.metastore.warehouse.dir", "file://" \o tmp_dir \o "/warehouse/">>,
        <<"javax.jdo.option.ConnectionURL",
          "jdbc:derby:memory:" \o tmp_dir \o "/metadb;create=true">>,
        <<"hive.metastore.event.db.listener.timetolive",
          Decimal[ToSeconds(notification_log_ttl_)] \o "s">>,
        <<"hive.metastore.sasl.enabled", BoolToStr(keytab_file_ # "")>>,
        <<"hive.metastore.kerberos.keytab.file", service_principal_>>,
        <<"hive.metastore.kerberos.principal", keytab_file_>>,
        <<"hadoop.rpc.protection", SaslProtectionNameOf(protection_)>> >>]

\* The contents CreateHiveSite writes: the values substituted in kFileTemplate.
HiveSiteContents(tmp_dir) ==
    [exists |-> TRUE,
     props |-> <<
        <<"datanucleus.schema.autoCreateAll", "true">>,
        <<"hive.metastore.schema.verification", "false">>,
        <<"hive.metastore.warehouse.dir", "file://" \o tmp_dir \o "/warehouse/">>,
        <<"javax.jdo.option.ConnectionURL",
          "jdbc:derby:memory:" \o tmp_dir \o "/metadb;create=true">>,
        <<"hive.metastore.event.db.listener.timetolive",
          Decimal[ToSeconds(notification_log_ttl_)] \o "s">>,
        <<"hive.metastore.sasl.enabled", BoolToStr(keytab_file_ # "")>>,
        <<"hive.metastore.kerberos.keytab.file", keytab_file_>>,
        <<"hive.metastore.kerberos.principal", service_principal_>>,
        <<"hadoop.rpc.protection", SaslProtectionNameOf(protection_)>> >>]

\* The contents CreateCoreSite writes.
CoreSiteContents ==
    [exists |-> TRUE,
     props |-> <<
        <<"hadoop.security.authentication",
          IF keytab_file_ = "" THEN "simple" ELSE "kerberos">> >>]

\* The value of a property of a written file ("" when it has none).
Prop(file, key) ==
    IF \E i \in 1..Len(file.props) : file.props[i][1] = key
    THEN file.props[CHOOSE i \in 1..Len(file.props) : file.props[i][1] = key][2]
    ELSE ""


\* --------------------------------------------------------- EnableKerberos

\* EnableKerberos without CHECK(!hms_process_).
EnableKerberosChecks_NoHandleCheck(krb5_conf, service_principal, keytab_file) ==
    CASE krb5_conf = "" -> "!krb5_conf.empty()"
      [] service_principal = "" -> "!service_principal.empty()"
      [] keytab_file = "" -> "!keytab_file.empty()"
      [] OTHER -> ""

\* EnableKerberos without CHECK(!keytab_file.empty()).
EnableKerberosChecks_NoKeytabCheck(krb5_conf, service_principal, keytab_file) ==
    CASE hms_process_.held -> "!hms_process_"
      [] krb5_conf = "" -> "!krb5_conf.empty()"
      [] service_principal = "" -> "!service_principal.empty()"
      [] OTHER -> ""

\* EnableKerberos without CHECK(!krb5_conf.empty()).
EnableKerberosChecks_NoConfCheck(krb5_conf, service_principal, keytab_file) ==
    CASE hms_process_.held -> "!hms_process_"
      [] service_principal = "" -> "!service_principal.empty()"
      [] keytab_file = "" -> "!keytab_file.empty()"
      [] OTHER -> ""

\* The CHECKs of EnableKerberos in their order: the text of the first one
\* that fails, "" when all pass.
EnableKerberosChecks(krb5_conf, service_principal, keytab_file) ==
    CASE hms_process_.held -> "!hms_process_"
      [] krb5_conf = "" -> "!krb5_conf.empty()"
      [] service_principal = "" -> "!service_principal.empty()"
      [] keytab_file = "" -> "!keytab_file.empty()"
      [] OTHER -> ""

EnableKerberos(krb5_conf, service_principal, keytab_file, protection) ==
    /\ Live
    /\ LET failed == EnableKerberosChecks(krb5_conf, service_principal, keytab_file)
           args == <<krb5_conf, service_principal, keytab_file, protection>>
       IN  IF failed # ""
           THEN /\ last' = Call("EnableKerberos", args, CheckFailed(failed), <<>>, 0, NeverBinds)
                /\ UNCHANGED security
           ELSE /\ krb5_conf_' = krb5_conf
                /\ service_principal_' = service_principal
                /\ keytab_file_' = keytab_file
                /\ protection_' = protection
                /\ last' = Call("EnableKerberos", args, OK, <<>>, 0, NeverBinds)
    /\ UNCHANGED <<hms_process_, notification_log_ttl_, port_, os, ambient, history>>

\* -------------------------------------------------- SetNotificationLogTtl

\* CHECK(hms_process_) of SetNotificationLogTtl.
SetNotificationLogTtlCheck == hms_process_.held

SetNotificationLogTtl(ttl) ==
    /\ Live
    /\ IF ~SetNotificationLogTtlCheck
       THEN /\ last' = Call("SetNotificationLogTtl", <<ttl>>,
                            CheckFailed("hms_process_"), <<>>, 0, NeverBinds)
            /\ UNCHANGED notification_log_ttl_
       ELSE /\ notification_log_ttl_' = ttl
            /\ last' = Call("SetNotificationLogTtl", <<ttl>>, OK, <<>>, 0, NeverBinds)
    /\ UNCHANGED <<hms_process_, port_, security, os, ambient, history>>


\* ------------------------------------------------------------------ Start

\* What the environment decides during one Start(): whether each config file
\* can be written, whether the child can be created, when it binds its port
\* and which port it picks if left the choice, whether the quit signal can be
\* delivered, and whether the child is already gone when Start() returns.
StartChoice(hive_write, core_write, spawn, bindAt, eph, kill, exited) ==
    [hive_write |-> hive_write, core_write |-> core_write, spawn |-> spawn,
     bindAt |-> bindAt, eph |-> eph, kill |-> kill, exited |-> exited]

\* The environment's choices, each outcome drawn once: a choice that is not
\* reached (a later step of a Start() that failed earlier, the quit signal of
\* a wait that succeeded, the port of a child that never binds) is fixed.
StartChoices ==
    {StartChoice(FALSE, TRUE, TRUE, NeverBinds, 9083, TRUE, FALSE),
     StartChoice(TRUE, FALSE, TRUE, NeverBinds, 9083, TRUE, FALSE),
     StartChoice(TRUE, TRUE, FALSE, NeverBinds, 9083, TRUE, FALSE)}
    \cup {StartChoice(TRUE, TRUE, TRUE, b, e, TRUE, FALSE) :
            b \in BindTimes \ {NeverBinds}, e \in Ports}
    \cup {StartChoice(TRUE, TRUE, TRUE, b, 9083, k, x) :
            b \in BindTimes, k \in BOOLEAN, x \in BOOLEAN}

\* The time in ms a Start() has taken when it calls WaitForTcpBind: the
\* resolution of the directories, the two file writes and the spawn.
BeforeWaitMs == {1, 5000}

\* Start without its CHECK: a second Start() replaces the handle.
StartPrecondition_Skipped == TRUE

\* CHECK(!hms_process_) of Start.
StartPrecondition == ~hms_process_.held

\* The command line with the port left to the child ("-p 0") on every launch.
HmsArgv_PortZero(hive_home) ==
    <<hive_home \o "/bin/hive", "--service", "metastore", "-v", "-p", Decimal[0]>>

\* The command line of the Subprocess.
HmsArgv(hive_home) ==
    <<hive_home \o "/bin/hive", "--service", "metastore", "-v", "-p", Decimal[port_]>>

\* env_vars of Start.
HmsEnvVars(java_home, hadoop_home, bin_dir, tmp_dir) ==
    [JAVA_HOME |-> java_home,
     HADOOP_HOME |-> hadoop_home,
     HIVE_AUX_JARS_PATH |-> bin_dir \o "/hms-plugin.jar",
     HIVE_CONF_DIR |-> tmp_dir,
     JAVA_TOOL_OPTIONS |->
        "-Dhive.log.level=WARN -Dhive.root.logger=console"
        \o (IF krb5_conf_ # "" THEN " -Djava.security.krb5.conf=" \o krb5_conf_ ELSE ""),
     HADOOP_CONF_DIR |-> tmp_dir]

\* The wait given the slow-execution threshold of Start instead of the timeout.
StartWaitTimeoutMs_Half == kHmsStartTimeoutMs \div 2

\* The number of seconds given to a wait that takes milliseconds.
StartWaitTimeoutMs_Seconds == kHmsStartTimeoutMs \div 1000

\* The timeout Start passes to WaitForTcpBind.
StartWaitTimeoutMs == kHmsStartTimeoutMs

\* A failed wait that sends the child nothing.
StartWaitFailureSignals_None(pid, delivered) == <<>>

\* A Start() that aborts the child with the signal of Stop().
StartWaitFailureSignals_Term(pid, delivered) == <<Sent(pid, "SIGTERM", delivered)>>

\* if (!wait.ok()) WARN_NOT_OK(hms_process_->Kill(SIGQUIT), ...): the signals
\* sent to the child when the wait failed.
StartWaitFailureSignals(pid, delivered) == <<Sent(pid, "SIGQUIT", delivered)>>

\* return wait;
StartReturn(wait) == wait

\* A Start() that does not keep the Subprocess it created.
StartHandle_Dropped(pid) == NoProcess

\* hms_process_ once Subprocess::Start() was attempted: the handle is held
\* whether or not a child was created (pid 0: none was).
StartHandle(pid) == [held |-> TRUE, pid |-> pid]

\* The process table with the new child pid in it.
Spawned(pid, status) ==
    IF pid \in DOMAIN procs THEN [procs EXCEPT ![pid] = status] ELSE procs

\* Start() past its CHECK, under the environment's choices c: the Status it
\* returns and the values it leaves behind.
StartRun(c) ==
    LET bin_dir == BinDir
        hadoop == FindHomeDir(kHadoop, bin_dir)
        hive == FindHomeDir(kHive, bin_dir)
        java == FindHomeDir(kJava, bin_dir)
        tmp_dir == TestDataDirectory
        base == [status |-> OK, hms |-> hms_process_, port |-> port_,
                 procs |-> procs, nspawned |-> nspawned, launch |-> launch,
                 files |-> files, signals |-> <<>>, spawned |-> 0,
                 bindAt |-> NeverBinds]
        hive_written == [files EXCEPT !.hive_site = HiveSiteContents(tmp_dir)]
        both_written == [hive_written EXCEPT !.core_site = CoreSiteContents]
        argv == HmsArgv(hive.home_dir)
        created == [base EXCEPT
                      !.files = both_written,
                      !.launch = [argv |-> argv,
                                  env_vars |-> HmsEnvVars(java.home_dir, hadoop.home_dir,
                                                          bin_dir, tmp_dir)]]
        pid == nspawned + 1
        wait == WaitForTcpBind(c.bindAt, StartWaitTimeoutMs)
        spawned == [created EXCEPT
                      !.hms = StartHandle(pid), !.nspawned = pid, !.spawned = pid,
                      !.bindAt = c.bindAt, !.status = StartReturn(wait)]
    IN  CASE hadoop.status.code # "OK" -> [base EXCEPT !.status = hadoop.status]
          [] hive.status.code # "OK" -> [base EXCEPT !.status = hive.status]
          [] java.status.code # "OK" -> [base EXCEPT !.status = java.status]
          [] ~c.hive_write ->
                [base EXCEPT !.status = StatusOf("IOError", "hive-site.xml")]
          [] ~c.core_write ->
                [base EXCEPT !.status = StatusOf("IOError", "core-site.xml"),
                             !.files = hive_written]
          [] ~c.spawn ->
                [created EXCEPT !.status = StatusOf("RuntimeError", "Unable to fork"),
                                !.hms = StartHandle(0)]
          [] wait.code = "OK" ->
                [spawned EXCEPT !.port = BoundPort(argv, c.eph),
                                !.procs = Spawned(pid, "running")]
          [] OTHER ->
                [spawned EXCEPT
                    !.signals = StartWaitFailureSignals(pid, c.kill),
                    !.procs = Spawned(pid, IF c.exited THEN "zombie" ELSE "running")]

Start ==
    /\ Live
    /\ start_called' = TRUE
    /\ UNCHANGED <<notification_log_ttl_, security, ambient, cycle_port, stop_failed>>
    /\ IF ~StartPrecondition
       THEN /\ last' = Call("Start", <<>>, CheckFailed("!hms_process_"), <<>>, 0, NeverBinds)
            /\ UNCHANGED <<hms_process_, port_, os, run_ok>>
       ELSE \E c \in StartChoices : \E r \in {StartRun(c)} :
            \E t \in IF r.spawned # 0 THEN BeforeWaitMs ELSE {0} :
                  /\ r.nspawned <= MaxSpawns
                  /\ hms_process_' = r.hms
                  /\ port_' = r.port
                  /\ procs' = r.procs
                  /\ nspawned' = r.nspawned
                  /\ launch' = r.launch
                  /\ files' = r.files
                  /\ run_ok' = (r.status.code = "OK")
                  /\ last' = [Call("Start", <<>>, r.status, r.signals, r.spawned,
                                    r.bindAt) EXCEPT !.waitFrom = t]

\* ------------------------------------------------------------------- Stop

\* A Stop() that gives the handle up only when the kill succeeded.
StopHandle_KeptOnFailure(st) == IF st.code = "OK" THEN NoProcess ELSE hms_process_

\* hms_process_ after Stop() took the handle: std::move(hms_process_) leaves
\* it null before the kill is attempted, whatever the kill's result st.
StopHandle(st) == NoProcess

\* A Stop() that looks first whether the child is alive and sends nothing
\* to one that is gone.
StopSignals_OnlyIfAlive(proc, outcome) ==
    IF ~Alive(proc.pid) THEN <<>>
    ELSE <<Sent(proc.pid, "SIGTERM", outcome # "kill_failed")>>

\* The signals KillAndWait(SIGTERM) sends.
StopSignals(proc, outcome) ==
    IF proc.pid = 0 THEN <<>>
    ELSE <<Sent(proc.pid, "SIGTERM", outcome # "kill_failed")>>

\* A Stop() that only logs a failed kill (WARN_NOT_OK) and returns OK.
StopReturn_Swallowed(st) == OK

\* RETURN_NOT_OK_PREPEND(proc->KillAndWait(SIGTERM), ...); return Status::OK();
StopReturn(st) ==
    IF st.code # "OK"
    THEN Prepend(st, "failed to stop the Hive MetaStore process")
    ELSE OK

\* Stop() under the environment's choice of KillAndWait's outcome.
StopRun(outcome) ==
    IF hms_process_.held
    THEN LET proc == hms_process_
             st == SubprocessKillAndWait(proc, outcome)
         IN  [status |-> StopReturn(st),
              hms |-> StopHandle(st),
              procs |-> KilledAndWaited(procs, proc, outcome),
              signals |-> StopSignals(proc, outcome)]
    ELSE [status |-> OK, hms |-> hms_process_, procs |-> procs, signals |-> <<>>]

\* A Stop() that also forgets the port: port_ = 0 along with the handle.
StopAs_ClearsPort(op, outcome) ==
    \E r \in {StopRun(outcome)} :
        /\ hms_process_' = r.hms
        /\ port_' = 0
        /\ procs' = r.procs
        /\ run_ok' = (run_ok /\ r.hms.held)
        /\ cycle_port' = IF run_ok /\ r.status.code = "OK" THEN port_ ELSE cycle_port
        /\ stop_failed' = (stop_failed \/ r.status.code # "OK")
        /\ last' = Call(op, <<>>, r.status, r.signals, 0, NeverBinds)
        /\ UNCHANGED <<notification_log_ttl_, security, nspawned, launch,
                       files, ambient, start_called>>

\* The effects of Stop(), called as op (by the caller or by the destructor).
StopAs(op, outcome) ==
    \E r \in {StopRun(outcome)} :
        /\ hms_process_' = r.hms
        /\ procs' = r.procs
        /\ run_ok' = (run_ok /\ r.hms.held)
        /\ cycle_port' = IF run_ok /\ r.status.code = "OK" THEN port_ ELSE cycle_port
        /\ stop_failed' = (stop_failed \/ r.status.code # "OK")
        /\ last' = Call(op, <<>>, r.status, r.signals, 0, NeverBinds)
        /\ UNCHANGED <<notification_log_ttl_, port_, security, nspawned, launch,
                       files, ambient, start_called>>

Stop ==
    /\ Live
    /\ \E outcome \in KillWaitOutcomes : StopAs("Stop", outcome)

\* A destructor that does not call Stop().
Destroy_NoStop ==
    /\ Live
    /\ last' = Call("~MiniHms", <<>>, OK, <<>>, 0, NeverBinds)
    /\ UNCHANGED <<fields, os, ambient, history>>

\* ~MiniHms(): WARN_NOT_OK(Stop(), ...); the Status is logged and dropped.
Destroy ==
    /\ Live
    /\ \E outcome \in KillWaitOutcomes : StopAs("~MiniHms", outcome)

\* ------------------------------------------------------- Pause and Resume

\* Pause and Resume without their CHECK.
SignalPrecondition_Skipped == TRUE

\* CHECK(hms_process_) of Pause and of Resume.
SignalPrecondition == hms_process_.held

\* A Pause() or Resume() that only logs a failed Kill and returns OK.
SignalReturn_Swallowed(st, prefix) == OK

\* RETURN_NOT_OK_PREPEND(hms_process_->Kill(sig), prefix); return Status::OK();
SignalReturn(st, prefix) == IF st.code # "OK" THEN Prepend(st, prefix) ELSE OK

\* A Pause() or Resume() that drops the handle when its Kill fails.
SignalAs_DropsHandleOnFailure(op, sig, prefix, delivered) ==
    /\ IF ~SignalPrecondition
       THEN /\ last' = Call(op, <<>>, CheckFailed("hms_process_"), <<>>, 0, NeverBinds)
            /\ UNCHANGED <<procs, hms_process_>>
       ELSE LET st == SubprocessKill(hms_process_, delivered)
            IN  /\ procs' = IF st.code = "OK"
                            THEN Signalled(procs, hms_process_.pid, sig)
                            ELSE procs
                /\ hms_process_' = IF st.code = "OK" THEN hms_process_ ELSE NoProcess
                /\ last' = Call(op, <<>>, SignalReturn(st, prefix),
                                IF hms_process_.pid = 0 THEN <<>>
                                ELSE <<Sent(hms_process_.pid, sig, delivered)>>,
                                0, NeverBinds)
    /\ UNCHANGED <<notification_log_ttl_, port_, security, nspawned, launch, files,
                   ambient, history>>

\* Pause() and Resume(): Kill(sig) on the held handle, its failure prefixed.
SignalAs(op, sig, prefix, delivered) ==
    /\ IF ~SignalPrecondition
       THEN /\ last' = Call(op, <<>>, CheckFailed("hms_process_"), <<>>, 0, NeverBinds)
            /\ UNCHANGED procs
       ELSE LET st == SubprocessKill(hms_process_, delivered)
            IN  /\ procs' = IF st.code = "OK"
                            THEN Signalled(procs, hms_process_.pid, sig)
                            ELSE procs
                /\ last' = Call(op, <<>>, SignalReturn(st, prefix),
                                IF hms_process_.pid = 0 THEN <<>>
                                ELSE <<Sent(hms_process_.pid, sig, delivered)>>,
                                0, NeverBinds)
    /\ UNCHANGED <<fields, nspawned, launch, files, ambient, history>>

\* A Pause() that sends the signal of Resume().
Pause_SendsCont ==
    /\ Live
    /\ \E delivered \in BOOLEAN :
         SignalAs("Pause", "SIGCONT", "failed to pause the Hive MetaStore process",
                  delivered)

Pause ==
    /\ Live
    /\ \E delivered \in BOOLEAN :
         SignalAs("Pause", "SIGSTOP", "failed to pause the Hive MetaStore process",
                  delivered)

Resume ==
    /\ Live
    /\ \E delivered \in BOOLEAN :
         SignalAs("Resume", "SIGCONT", "failed to unpause the Hive MetaStore process",
                  delivered)

\* -------------------------------------------------------- the environment

Outside(op) == Call(op, <<>>, OK, <<>>, 0, NeverBinds)

\* A spawned child exits on its own account or of a signal it was sent.
ChildExits(pid) ==
    /\ Live
    /\ procs[pid] = "running"
    /\ procs' = [procs EXCEPT ![pid] = "zombie"]
    /\ last' = Outside("exit")
    /\ UNCHANGED <<fields, nspawned, launch, files, ambient, history>>

\* The test sets or clears an override variable between two calls.
Setenv(name) ==
    /\ Live
    /\ envChanges < MaxEnvChanges
    /\ ~environ[name].set
    /\ environ' = [environ EXCEPT ![name] = [set |-> TRUE, value |-> OverrideDir]]
    /\ envChanges' = envChanges + 1
    /\ last' = Outside("setenv")
    /\ UNCHANGED <<fields, os, fs, history>>

Unsetenv(name) ==
    /\ Live
    /\ envChanges < MaxEnvChanges
    /\ environ[name].set
    /\ environ' = [environ EXCEPT ![name] = Unset]
    /\ envChanges' = envChanges + 1
    /\ last' = Outside("unsetenv")
    /\ UNCHANGED <<fields, os, fs, history>>

\* A directory appears or disappears between two calls.
Mkdir(dir) ==
    /\ Live
    /\ envChanges < MaxEnvChanges
    /\ dir \notin fs
    /\ fs' = fs \cup {dir}
    /\ envChanges' = envChanges + 1
    /\ last' = Outside("mkdir")
    /\ UNCHANGED <<fields, os, environ, history>>

Rmdir(dir) ==
    /\ Live
    /\ envChanges < MaxEnvChanges
    /\ dir \in fs
    /\ fs' = fs \ {dir}
    /\ envChanges' = envChanges + 1
    /\ last' = Outside("rmdir")
    /\ UNCHANGED <<fields, os, environ, history>>

\* address(): HostPort("127.0.0.1", port_)
Address == [host |-> "127.0.0.1", port |-> port_]

\* ---------------------------------------------------------- specification

\* The calls of the owner and the exits of the children.
Next ==
    \/ \E a \in KrbArgs : EnableKerberos(a[1], a[2], a[3], a[4])
    \/ \E ttl \in TtlArgs : SetNotificationLogTtl(ttl)
    \/ Start
    \/ Stop
    \/ Pause
    \/ Resume
    \/ Destroy
    \/ \E pid \in 1..MaxSpawns : ChildExits(pid)

\* The changes of the ambient environment between two calls.
EnvChange ==
    \/ \E name \in EnvVarNames : Setenv(name)
    \/ \E name \in EnvVarNames : Unsetenv(name)
    \/ \E dir \in DefaultDirs \cup {OverrideDir} : Mkdir(dir)
    \/ \E dir \in DefaultDirs \cup {OverrideDir} : Rmdir(dir)

\* The instance in a fixed environment.
Spec == Init /\ [][Next]_vars

\* Start() and Stop() in an environment that changes between them.
NextEnv == Start \/ Stop \/ EnvChange

SpecEnv == Init /\ [][NextEnv]_vars


\* The directories of the binary FindHomeDir is called with.
BinDirs == {BinDir, "/usr/lib"}

\* FindHomeDir called on its own, as Start() calls it: the Status it
\* returns and the directory it stores in *home_dir.

Resolve(name, bin_dir) ==
    /\ Live
    /\ \E r \in {FindHomeDir(name, bin_dir)} :
          last' = Call("FindHomeDir", <<Chars(name), bin_dir, r.home_dir>>,
                       r.status, <<>>, 0, NeverBinds)
    /\ UNCHANGED <<fields, os, ambient, history>>

\* FindHomeDir in an environment that changes between two calls of it.
NextResolve ==
    \/ \E name \in Dependencies, bin_dir \in BinDirs : Resolve(name, bin_dir)
    \/ EnvChange

SpecResolve == Init /\ [][NextResolve]_vars

\* ----------------------------------------------------------------- claims

\* The latest call is a Start() that created a child process.
StartSpawned == last.op = "Start" /\ last.spawned # 0

\* C1 (as claimed): for a Start() that spawned its child, the result is OK
\* exactly when the child bound its port within the 60 s timeout; otherwise
\* the result is a timeout error and that child is not alive when Start()
\* returns.
C1_TimeoutLeavesNoProcessAlive ==
    StartSpawned =>
        /\ last.result.code = "OK" <=>
              (last.bindAt # NeverBinds /\ last.bindAt < 60000)
        /\ last.result.code # "OK" =>
              (last.result.code = "TimedOut" /\ ~Alive(last.spawned))

\* C1 (amended): for a Start() that spawned its child, the result is OK
\* exactly when the child bound its port within the 60 s timeout; otherwise
\* the result is a timeout error, the child has not been waited for (it is
\* running or a zombie) and the instance still holds its handle.
C1_StartOkIffBoundInTime ==
    StartSpawned =>
        /\ last.result.code = "OK" <=>
              (last.bindAt # NeverBinds /\ last.bindAt < 60000)
        /\ last.result.code # "OK" =>
              /\ last.result.code = "TimedOut"
              /\ procs[last.spawned] \in {"running", "zombie"}
              /\ hms_process_ = [held |-> TRUE, pid |-> last.spawned]

\* C1 witness: a Start() timed out and its child is still alive on return.
C1_TimedOutChildAlive ==
    StartSpawned /\ last.result.code = "TimedOut" /\ Alive(last.spawned)

\* C2 (as claimed): after a Start() that returned an error the instance holds
\* no process handle, and a Start() that retries a failed Start() is not
\* rejected by the CHECK.
C2_FailedStartLeavesStopped ==
    last.op = "Start" =>
        /\ last.result.code \notin {"OK", "CheckFailed"} => ~hms_process_.held
        /\ last.retry => last.result.code # "CheckFailed"

\* C2 (amended): a Start() that failed to resolve a directory or to write a
\* config file leaves the instance without a handle, and retrying it is
\* accepted; a Start() that failed to spawn or timed out leaves the instance
\* holding the handle it created, and retrying it fails the CHECK.
C2_FailedStartKeepsCreatedHandle ==
    last.op = "Start" =>
        /\ last.result.code \in {"NotFound", "IOError"} => ~hms_process_.held
        /\ last.result.code \in {"RuntimeError", "TimedOut"} =>
              hms_process_ = [held |-> TRUE, pid |-> last.spawned]
        /\ last.retry =>
              (last.result.code = "CheckFailed" <=> last.before = "Failed")

\* C2 witness: a Start() retried right after a failed Start() hit the CHECK.
C2_RetryRejected ==
    last.op = "Start" /\ last.retry /\ last.result.code = "CheckFailed"

\* C3 (as claimed): a Start() that returns an error after it created the
\* child has delivered the kill to that child.
C3_FailedStartKilledChild ==
    (StartSpawned /\ last.result.code # "OK") =>
        last.signals = <<[pid |-> last.spawned, sig |-> "SIGQUIT", delivered |-> TRUE]>>

\* C3 (amended): a Start() that returns an error after it created the child
\* has attempted exactly one signal, SIGQUIT to that child, delivered or not.
C3_FailedStartSentQuit ==
    (StartSpawned /\ last.result.code # "OK") =>
        /\ Len(last.signals) = 1
        /\ last.signals[1].pid = last.spawned
        /\ last.signals[1].sig = "SIGQUIT"

\* C3 witness: a Start() failed after spawning and its SIGQUIT was not delivered.
C3_QuitNotDelivered ==
    /\ StartSpawned
    /\ last.result.code # "OK"
    /\ Len(last.signals) = 1
    /\ ~last.signals[1].delivered

\* C4: a Stop() that directly follows a Stop() returns OK, also when the first
\* returned an error; a Stop() of an instance without a handle returns OK,
\* sends no signal and changes nothing.
C4_StopIdempotent ==
    [][last'.op = "Stop" =>
         /\ last.op = "Stop" => last'.result.code = "OK"
         /\ ~hms_process_.held =>
               /\ last'.result.code = "OK"
               /\ last'.signals = <<>>
               /\ UNCHANGED <<fields, os>>]_vars

\* C4 witness: a Stop() right after a failed Stop() returned OK without a
\* signal, the child of the failed one still alive.
C4_SecondStopAfterFailedStop ==
    /\ last.op = "Stop"
    /\ last.retry
    /\ last.result.code = "OK"
    /\ last.signals = <<>>
    /\ \E pid \in 1..MaxSpawns : Alive(pid)

\* C5: once a Start() that returned OK and a Stop() that returned OK have
\* completed with port p, every later Start() that launches a process names p
\* on the command line, and when it returns OK the port is p.
C5_RestartSamePort ==
    (last.op = "Start" /\ cycle_port # 0) =>
        /\ last.result.code \in {"OK", "TimedOut", "RuntimeError"} =>
              launch.argv[Len(launch.argv)] = IntToStr(cycle_port)
        /\ last.result.code = "OK" => port_ = cycle_port

\* C5 witness: a Start() after a completed cycle returned OK.
C5_RestartedOk ==
    last.op = "Start" /\ cycle_port # 0 /\ last.result.code = "OK" /\ last.spawned > 1

\* C6 (as claimed): an EnableKerberos call after an earlier accepted one, or
\* after any Start(), fails its CHECK and leaves the security configuration
\* unchanged.
C6_EnableKerberosOnlyOnceBeforeStart ==
    [][(last'.op = "EnableKerberos" /\ (krb5_conf_ # "" \/ start_called)) =>
         (last'.result.code = "CheckFailed" /\ UNCHANGED security)]_vars

\* C6 (amended): an EnableKerberos call fails its CHECK, leaving the security
\* configuration unchanged, exactly when the instance holds a process handle
\* or one of the three strings is empty; every other call, a second one and
\* one after a Start()/Stop() cycle included, is accepted and stores its
\* arguments.
C6_EnableKerberosRejectedIffHeldOrEmpty ==
    [][last'.op = "EnableKerberos" =>
         IF \/ hms_process_.held
            \/ \E i \in 1..3 : last'.args[i] = ""
         THEN last'.result.code = "CheckFailed" /\ UNCHANGED security
         ELSE last'.result.code = "OK" /\ security' = last'.args]_vars

\* C6 witness: an EnableKerberos call after a completed Start()/Stop() cycle
\* was accepted.
C6_AcceptedAfterCycle ==
    last.op = "EnableKerberos" /\ last.result.code = "OK" /\ cycle_port # 0

\* C7 (as claimed): Pause() of a Stopped instance and Resume() of an instance
\* that is not Paused fail the CHECK, send no signal and change nothing.
C7_PauseResumeRejectedUnlessPaused ==
    [][(\/ last'.op = "Pause" /\ State = "Stopped"
        \/ last'.op = "Resume" /\ State \in {"Stopped", "Running"}) =>
         /\ last'.result.code = "CheckFailed"
         /\ last'.signals = <<>>
         /\ UNCHANGED <<fields, os>>]_vars

\* C7 (amended): Pause() and Resume() of a Stopped instance fail the CHECK,
\* send no signal and change nothing; Resume() of a Running instance passes
\* the CHECK, signals nothing but SIGCONT and changes neither the fields nor
\* the process.
C7_PauseResumeRejectedWhenStopped ==
    [][/\ (last'.op \in {"Pause", "Resume"} /\ State = "Stopped") =>
            /\ last'.result.code = "CheckFailed"
            /\ last'.signals = <<>>
            /\ UNCHANGED <<fields, os>>
       /\ (last'.op = "Resume" /\ State = "Running") =>
            /\ last'.result.code # "CheckFailed"
            /\ \A i \in 1..Len(last'.signals) : last'.signals[i].sig = "SIGCONT"
            /\ UNCHANGED <<fields, os>>]_vars

\* C7 witness: a Resume() of a Running instance returned OK and sent a signal.
C7_ResumeOnRunningAccepted ==
    /\ last.op = "Resume"
    /\ last.before = "Running"
    /\ last.result.code = "OK"
    /\ last.signals # <<>>

\* C8: SetNotificationLogTtl is accepted exactly when the instance is Stopped.
C8_TtlAcceptedIffStopped ==
    last.op = "SetNotificationLogTtl" =>
        (last.result.code = "OK" <=> last.before = "Stopped")

\* C9: SetNotificationLogTtl before the first Start() passes its CHECK; the
\* hive-site.xml a Start() wrote carries the TTL in whole seconds with the
\* suffix "s"; after a Stop() that returned OK the child it stopped is not
\* alive.
C9_FreshTtlThenStartThenStop ==
    /\ (last.op = "SetNotificationLogTtl" /\ ~start_called) =>
          last.result.code # "CheckFailed"
    /\ (last.op = "Start" /\ last.result.code \in {"OK", "TimedOut", "RuntimeError"}) =>
          Prop(files.hive_site, "hive.metastore.event.db.listener.timetolive")
             = IntToStr(notification_log_ttl_) \o "s"
    /\ (last.op = "Stop" /\ last.result.code = "OK") =>
          \A i \in 1..Len(last.signals) : ~Alive(last.signals[i].pid)

\* C10: a Start() of an instance that holds a process handle fails the CHECK;
\* the handle is not replaced and no process is spawned.
C10_StartWhileHeldFails ==
    [][(last'.op = "Start" /\ hms_process_.held) =>
         /\ last'.result.code = "CheckFailed"
         /\ last'.spawned = 0
         /\ UNCHANGED <<hms_process_, port_, os>>]_vars

\* C10 witness: a Start() of a Running instance failed the CHECK.
C10_StartOnRunningRejected ==
    last.op = "Start" /\ last.before = "Running" /\ last.result.code = "CheckFailed"


\* ---------------------------------------------------------------- C11

\* Both files of the last Start() were written by it.
StartWroteFiles ==
    last.op = "Start" /\ last.result.code \in {"OK", "TimedOut", "RuntimeError"}

\* C11: when EnableKerberos was accepted before a Start(), the files that
\* Start() wrote carry the authentication mode "kerberos", the SASL flag
\* "true", the keytab and the principal of the call and the name of its
\* protection level; when it was never called they carry "simple" and "false".
C11_FilesFollowKerberosConfig ==
    StartWroteFiles =>
        IF krb5_conf_ # ""
        THEN /\ Prop(files.core_site, "hadoop.security.authentication") = "kerberos"
             /\ Prop(files.hive_site, "hive.metastore.sasl.enabled") = "true"
             /\ Prop(files.hive_site, "hive.metastore.kerberos.keytab.file") = keytab_file_
             /\ Prop(files.hive_site, "hive.metastore.kerberos.principal")
                  = service_principal_
             /\ \/ protection_ = "kAuthentication"
                   /\ Prop(files.hive_site, "hadoop.rpc.protection") = "authentication"
                \/ protection_ = "kIntegrity"
                   /\ Prop(files.hive_site, "hadoop.rpc.protection") = "integrity"
                \/ protection_ = "kPrivacy"
                   /\ Prop(files.hive_site, "hadoop.rpc.protection") = "privacy"
        ELSE /\ Prop(files.core_site, "hadoop.security.authentication") = "simple"
             /\ Prop(files.hive_site, "hive.metastore.sasl.enabled") = "false"

\* C11 witness: a Start() after an accepted EnableKerberos wrote the files
\* with the keytab of the call.
C11_StartedWithKerberos ==
    /\ StartWroteFiles
    /\ last.result.code = "OK"
    /\ keytab_file_ = "/keys/hive.keytab"
    /\ Prop(files.hive_site, "hive.metastore.kerberos.keytab.file") = "/keys/hive.keytab"
    /\ Prop(files.hive_site, "hadoop.rpc.protection") = "privacy"


\* ---------------------------------------------------------------- C12

\* The three strings of the security configuration are all set or all empty.
AllOrNone ==
    \/ krb5_conf_ = "" /\ service_principal_ = "" /\ keytab_file_ = ""
    \/ krb5_conf_ # "" /\ service_principal_ # "" /\ keytab_file_ # ""

\* C12: in every reachable state the configuration path, the principal and
\* the keytab path are all non-empty or all empty; an EnableKerberos call
\* with an empty one among them fails a CHECK and stores nothing.
C12_SecurityAllOrNone ==
    /\ []AllOrNone
    /\ [][(/\ last'.op = "EnableKerberos"
           /\ \E i \in 1..3 : last'.args[i] = "") =>
              /\ last'.result.code = "CheckFailed"
              /\ UNCHANGED security]_vars

\* C12 witness: a call with an empty keytab path on an instance that holds
\* no handle was rejected and the configuration is still empty.
C12_PartialCallRejected ==
    /\ last.op = "EnableKerberos"
    /\ last.before = "Stopped"
    /\ last.args[1] # "" /\ last.args[2] # "" /\ last.args[3] = ""
    /\ last.result.code = "CheckFailed"
    /\ krb5_conf_ = ""


\* ---------------------------------------------------------------- C13

\* The children of the instance that are alive.
LiveChildren == {pid \in 1..MaxSpawns : Alive(pid)}

C14_StopOkMeansReaped ==
    [][(/\ last'.op = "Stop"
        /\ last'.result.code = "OK"
        /\ State \in {"Running", "Paused"}) =>
           /\ last'.signals = <<Sent(hms_process_.pid, "SIGTERM", TRUE)>>
           /\ procs'[hms_process_.pid] = "reaped"]_vars

\* C14 witness: a Stop() of a Running instance returned OK and its child is
\* reaped.
C14_RunningStoppedAndReaped ==
    /\ last.op = "Stop"
    /\ last.before = "Running"
    /\ last.result.code = "OK"
    /\ Len(last.signals) = 1
    /\ procs[last.signals[1].pid] = "reaped"


\* ---------------------------------------------------------------- C15

\* C15: Stop() changes nothing of the instance but the process handle: the
\* port, the notification log TTL and the security configuration are after
\* it what they were before it, whether it returns OK or an error.
C15_StopKeepsSettings ==
    [][last'.op = "Stop" =>
          UNCHANGED <<port_, notification_log_ttl_, security>>]_vars

\* C15 witness: a Stop() that returned an error left a bound port, a changed
\* TTL and a Kerberos configuration in place.
C15_FailedStopKeptSettings ==
    /\ last.op = "Stop"
    /\ last.result.code = "RuntimeError"
    /\ port_ \in Ports
    /\ notification_log_ttl_ # kDefaultNotificationLogTtlSecs
    /\ keytab_file_ # ""


\* ---------------------------------------------------------------- C16

\* C16: Stop() of a Paused instance fails no CHECK and leaves the instance
\* Stopped; when it returns OK it has sent SIGTERM to the suspended child
\* and reaped it; a Start() of a Stopped instance fails no CHECK.
C16_StopFromPaused ==
    [][/\ (last'.op = "Stop" /\ State = "Paused") =>
             /\ last'.result.code # "CheckFailed"
             /\ State' = "Stopped"
             /\ last'.result.code = "OK" =>
                   /\ last'.signals = <<Sent(hms_process_.pid, "SIGTERM", TRUE)>>
                   /\ procs'[hms_process_.pid] = "reaped"
       /\ (last'.op = "Start" /\ State = "Stopped") =>
             last'.result.code # "CheckFailed"]_vars

\* C16 witness: a Stop() of a Paused instance returned OK, the instance is
\* Stopped and the child that was suspended is reaped.
C16_PausedStopped ==
    /\ last.op = "Stop"
    /\ last.before = "Paused"
    /\ last.result.code = "OK"
    /\ State = "Stopped"
    /\ Len(last.signals) = 1
    /\ procs[last.signals[1].pid] = "reaped"


\* ---------------------------------------------------------------- C17

C18_TransitionTable ==
    [][/\ (last'.op = "Pause" /\ last'.result.code = "OK") =>
             State = "Running" /\ State' = "Paused"
       /\ (last'.op = "Resume" /\ last'.result.code = "OK") =>
             State = "Paused" /\ State' = "Running"
       /\ (last'.op = "Pause" /\ State = "Paused") =>
             last'.result.code = "CheckFailed" /\ last'.signals = <<>>]_vars

\* C18: Pause() and Resume() fail their CHECK exactly when no handle is
\* held.  A Pause() that returns OK has sent SIGSTOP to the held child and
\* leaves it, if alive, suspended: a Running instance with a live child
\* becomes Paused and a Paused one stays Paused.  A Resume() that returns OK
\* has sent SIGCONT and leaves the child, if alive, running: a Paused
\* instance becomes Running and a Running one stays Running.
C18_PauseResumeTransitions ==
    [][/\ last'.op \in {"Pause", "Resume"} =>
             (last'.result.code = "CheckFailed" <=> ~hms_process_.held)
       /\ (last'.op = "Pause" /\ last'.result.code = "OK") =>
             /\ last'.signals = <<Sent(hms_process_.pid, "SIGSTOP", TRUE)>>
             /\ Alive(hms_process_.pid) => procs'[hms_process_.pid] = "stopped"
             /\ (State = "Running" /\ Alive(hms_process_.pid)) => State' = "Paused"
             /\ State = "Paused" => State' = "Paused"
       /\ (last'.op = "Resume" /\ last'.result.code = "OK") =>
             /\ last'.signals = <<Sent(hms_process_.pid, "SIGCONT", TRUE)>>
             /\ Alive(hms_process_.pid) => procs'[hms_process_.pid] = "running"
             /\ State = "Paused" => State' = "Running"
             /\ State = "Running" => State' = "Running"]_vars

\* C18 witness: a Pause() of a Paused instance returned OK and sent a second
\* SIGSTOP; the instance is still Paused.
C18_PauseOnPausedAccepted ==
    /\ last.op = "Pause"
    /\ last.before = "Paused"
    /\ last.result.code = "OK"
    /\ Len(last.signals) = 1
    /\ last.signals[1].sig = "SIGSTOP"
    /\ State = "Paused"


\* ---------------------------------------------------------------- C19

\* A directory Start() needs is missing: an override variable names a path
\* that is not there, or a variable is not set and the directory of its
\* name next to the binary is not there.
HomeMissing ==
    \E v \in EnvVarNames :
        IF environ[v].set
        THEN environ[v].value \notin fs
        ELSE \/ v = "HADOOP_HOME" /\ "/opt/bin/hadoop-home" \notin fs
             \/ v = "HIVE_HOME" /\ "/opt/bin/hive-home" \notin fs
             \/ v = "JAVA_HOME" /\ "/opt/bin/java-home" \notin fs

\* C19: a Start() that passes its CHECK resolves the directories first, then
\* writes the two files, then spawns, then waits.  With a directory missing
\* it returns NotFound, writes no file and spawns nothing; with a file write
\* failing it returns that error, creates no handle and spawns nothing; a
\* child is spawned only with both files written from the current settings,
\* and a readiness wait happens only on a spawned child.
C19_StartOrder ==
    [][(last'.op = "Start" /\ ~hms_process_.held) =>
          /\ HomeMissing <=> last'.result.code = "NotFound"
          /\ last'.result.code = "NotFound" =>
                /\ last'.spawned = 0
                /\ UNCHANGED <<hms_process_, port_, procs, nspawned, launch, files>>
          /\ last'.result.code = "IOError" =>
                /\ last'.spawned = 0
                /\ UNCHANGED <<hms_process_, port_, procs, nspawned, launch>>
                /\ files'.core_site = files.core_site
          /\ (last'.spawned # 0 \/ hms_process_'.held) =>
                /\ files'.hive_site = HiveSiteContents(TestDataDirectory)
                /\ files'.core_site = CoreSiteContents
          /\ last'.bindAt # NeverBinds => last'.spawned # 0
          /\ last'.signals # <<>> => last'.spawned # 0]_vars

\* C19 witness: a Start() with the hive directory missing returned NotFound
\* and left no file and no child behind.
C19_ResolutionFailedFirst ==
    /\ last.op = "Start"
    /\ last.result.code = "NotFound"
    /\ "/opt/bin/hive-home" \notin fs
    /\ ~files.hive_site.exists /\ ~files.core_site.exists
    /\ nspawned = 0


\* ---------------------------------------------------------------- C20

\* C20: a Pause() or a Resume() of an instance that holds a handle returns
\* an error with its own prefix when the signal is not delivered, and one
\* that returns an error has changed nothing: the lifecycle state, the
\* handle, the port, the configuration and the child are as before.
C20_FailedSignalChangesNothing ==
    [][(last'.op \in {"Pause", "Resume"} /\ hms_process_.held) =>
          /\ (\A i \in 1..Len(last'.signals) : ~last'.signals[i].delivered) =>
                /\ last'.result.code = "RuntimeError"
                /\ last'.result.msg =
                      (IF last'.op = "Pause"
                       THEN "failed to pause the Hive MetaStore process"
                       ELSE "failed to unpause the Hive MetaStore process")
                         \o ": Unable to kill"
          /\ last'.result.code # "OK" =>
                /\ UNCHANGED <<fields, os>>
                /\ State' = State]_vars

\* C20 witness: a Pause() of a Running instance returned an error; the
\* instance is still Running and its child was not suspended.
C20_PauseFailedStillRunning ==
    /\ last.op = "Pause"
    /\ last.before = "Running"
    /\ last.result.code = "RuntimeError"
    /\ Len(last.signals) = 1
    /\ ~last.signals[1].delivered
    /\ State = "Running"
    /\ procs[hms_process_.pid] = "running"


\* ---------------------------------------------------------------- C21

SignalOf(op) ==
    CASE op \in {"Stop", "~MiniHms"} -> "SIGTERM"
      [] op = "Pause" -> "SIGSTOP"
      [] op = "Resume" -> "SIGCONT"
      [] op = "Start" -> "SIGQUIT"
      [] OTHER -> "none"

\* C22: every signal a call sends is the one of its operation: SIGTERM for
\* Stop(), SIGSTOP for Pause(), SIGCONT for Resume(), and SIGQUIT, which is
\* not SIGTERM, for the abort of a Start() whose wait failed; a Start()
\* whose wait succeeded sends none.  Pause() and Resume() reap no child;
\* a Stop() that returns OK has reaped the child it signalled.
C22_OwnSignalOnly ==
    [][/\ \A i \in 1..Len(last'.signals) : last'.signals[i].sig = SignalOf(last'.op)
       /\ Len(last'.signals) <= 1
       /\ (last'.op = "Start" /\ last'.result.code = "OK") => last'.signals = <<>>
       /\ last'.op \in {"Pause", "Resume"} =>
             \A pid \in 1..MaxSpawns :
                 (procs'[pid] = "reaped") = (procs[pid] = "reaped")
       /\ (last'.op = "Stop" /\ last'.result.code = "OK") =>
             \A i \in 1..Len(last'.signals) :
                 procs'[last'.signals[i].pid] = "reaped"]_vars

\* C22 witness: a Start() whose wait timed out sent SIGQUIT, delivered, to
\* the child it had spawned.
C22_AbortSentQuit ==
    /\ last.op = "Start"
    /\ last.result.code = "TimedOut"
    /\ last.signals = <<Sent(last.spawned, "SIGQUIT", TRUE)>>


\* ---------------------------------------------------------------- C23

\* The directory a dependency resolves to in the environment as it is now.
HomeNow(v) ==
    IF environ[v].set THEN environ[v].value
    ELSE CASE v = "HADOOP_HOME" -> "/opt/bin/hadoop-home"
           [] v = "HIVE_HOME" -> "/opt/bin/hive-home"
           [] v = "JAVA_HOME" -> "/opt/bin/java-home"

\* C23: every Start() that passes its CHECK resolves the directories in the
\* environment of that moment: it returns NotFound exactly when one of them
\* is missing now, and the command line and the environment of the child it
\* launches name the directories of now, whatever an earlier Start() found.
C23_ResolvedAfresh ==
    [][(last'.op = "Start" /\ ~hms_process_.held) =>
          /\ HomeMissing <=> last'.result.code = "NotFound"
          /\ hms_process_'.held =>
                /\ launch'.argv[1] = HomeNow("HIVE_HOME") \o "/bin/hive"
                /\ launch'.env_vars.JAVA_HOME = HomeNow("JAVA_HOME")
                /\ launch'.env_vars.HADOOP_HOME = HomeNow("HADOOP_HOME")]_vars

\* C23 witness: a Start() found the directories and spawned a child; after
\* a Stop() and the removal of a directory the next Start() returns
\* NotFound and spawns nothing.
C23_SecondStartNotFound ==
    /\ last.op = "Start"
    /\ last.before = "Stopped"
    /\ last.result.code = "NotFound"
    /\ last.spawned = 0
    /\ nspawned = 1
    /\ "/opt/bin/hive-home" \notin fs


\* ---------------------------------------------------------------- C24

\* C24: FindHomeDir(name, bin_dir) stores the value of <NAME>_HOME as it is
\* when that variable is set and bin_dir/<name>-home when it is not; it
\* returns OK when that path exists and otherwise NotFound with the
\* variable and the path in its message; it changes neither the environment
\* nor the filesystem, and called again with the same arguments it gives
\* the same result.
C24_FindHomeDir ==
    [][last'.op = "FindHomeDir" =>
          LET name == last'.args[1]
              base == last'.args[2]
              out == last'.args[3]
              var == CASE name = "hadoop" -> "HADOOP_HOME"
                       [] name = "hive" -> "HIVE_HOME"
                       [] name = "java" -> "JAVA_HOME"
          IN  /\ out = IF environ[var].set THEN environ[var].value
                       ELSE base \o "/" \o name \o "-home"
              /\ IF out \in fs
                 THEN last'.result = [code |-> "OK", msg |-> ""]
                 ELSE last'.result =
                        [code |-> "NotFound",
                         msg |-> var \o " directory does not exist: " \o out]
              /\ UNCHANGED <<environ, fs, fields, os>>
              /\ (last.op = "FindHomeDir" /\ last.args[1] = name
                  /\ last.args[2] = base) =>
                     last'.result = last.result /\ out = last.args[3]]_vars

\* C24 witness: FindHomeDir("hive", "/opt/bin") with HIVE_HOME not set and
\* /opt/bin/hive-home absent returned NotFound naming both.
C24_HiveHomeNotFound ==
    /\ last.op = "FindHomeDir"
    /\ last.args = <<"hive", "/opt/bin", "/opt/bin/hive-home">>
    /\ ~environ["HIVE_HOME"].set
    /\ last.result = [code |-> "NotFound",
                      msg |-> "HIVE_HOME directory does not exist: /opt/bin/hive-home"]


\* ---------------------------------------------------------------- C25

\* C25: the port of address() is 0 as long as no Start() was called, it
\* changes only in a Start() that returns OK, a Start() that returns OK
\* leaves it non-zero, and once it is non-zero no call changes it again;
\* the host is always 127.0.0.1.
C25_PortSticky ==
    /\ [](Address.host = "127.0.0.1" /\ (~start_called => Address.port = 0))
    /\ [][/\ Address.port # 0 => Address' = Address
          /\ Address' # Address =>
                last'.op = "Start" /\ last'.result.code = "OK"
          /\ (last'.op = "Start" /\ last'.result.code = "OK") =>
                Address'.port \in Ports]_vars

\* C25 witness: a Start() of an instance that has a port from an earlier
\* Start() timed out, a second child was spawned for it, and the port is
\* still the one assigned before.
C25_PortKeptOverFailedStart ==
    /\ last.op = "Start"
    /\ last.result.code = "TimedOut"
    /\ last.spawned = 2
    /\ Address.port \in Ports


\* ---------------------------------------------------------------- C26

\* C26 as stated: a Start() that spawned its child returns OK exactly when
\* the child has bound its port within 60 s of the start of the call.
C26_DeadlineFromStartOfCall ==
    StartSpawned =>
        (last.result.code = "OK" <=>
            /\ last.bindAt # NeverBinds
            /\ last.waitFrom + last.bindAt < kHmsStartTimeoutMs)

\* C26: the 60 s of the readiness wait count from the call of
\* WaitForTcpBind, after the spawn: a Start() that spawned its child returns
\* OK exactly when the child binds within 60 s of that moment, however long
\* the call had taken before.  A Start() whose wait fails has spawned one
\* child, waited once, sent that child SIGQUIT and returns TimedOut.
C26_DeadlineFromWait ==
    [][(last'.op = "Start" /\ last'.spawned # 0) =>
          /\ nspawned' = nspawned + 1
          /\ last'.spawned = nspawned'
          /\ last'.result.code = "OK" <=>
                (last'.bindAt # NeverBinds /\ last'.bindAt < 60000)
          /\ last'.result.code # "OK" =>
                /\ last'.result.code = "TimedOut"
                /\ last'.signals =
                     <<Sent(last'.spawned, "SIGQUIT", last'.signals[1].delivered)>>]_vars

\* C26 witness: a Start() returned OK for a child that bound its port later
\* than 60 s after the start of the call.
C26_OkAfterSixtySeconds ==
    /\ StartSpawned
    /\ last.result.code = "OK"
    /\ last.waitFrom + last.bindAt > 60000


\* ---------------------------------------------------------------- C27

\* C27: the files and the child environment of a Start() agree on security:
\* hive-site.xml enables SASL, core-site.xml says "kerberos" and
\* JAVA_TOOL_OPTIONS carries -Djava.security.krb5.conf of the configured
\* path, all three when a Kerberos configuration is stored and none of them
\* when none is.
C27_SecurityIndicatorsAgree ==
    StartWroteFiles =>
        LET sasl == Prop(files.hive_site, "hive.metastore.sasl.enabled")
            auth == Prop(files.core_site, "hadoop.security.authentication")
            opts == launch.env_vars.JAVA_TOOL_OPTIONS
            plain == "-Dhive.log.level=WARN -Dhive.root.logger=console"
        IN  \/ /\ krb5_conf_ # "" /\ keytab_file_ # ""
               /\ sasl = "true"
               /\ auth = "kerberos"
               /\ opts = plain \o " -Djava.security.krb5.conf=" \o krb5_conf_
            \/ /\ krb5_conf_ = "" /\ keytab_file_ = ""
               /\ sasl = "false"
               /\ auth = "simple"
               /\ opts = plain

\* C27 witness: a Start() with a Kerberos configuration launched its child
\* with the krb5.conf option and wrote both files for Kerberos.
C27_AllThreeOn ==
    /\ StartWroteFiles
    /\ last.spawned # 0
    /\ launch.env_vars.JAVA_TOOL_OPTIONS =
         "-Dhive.log.level=WARN -Dhive.root.logger=console"
            \o " -Djava.security.krb5.conf=/alt/krb5.conf"
    /\ Prop(files.hive_site, "hive.metastore.sasl.enabled") = "true"
    /\ Prop(files.core_site, "hadoop.security.authentication") = "kerberos"


\* ---------------------------------------------------------------- C28

\* C28: the handle changes in three ways only: a Start() of an instance
\* that holds none stores a new one, and every child that is spawned is the
\* one the new handle names; Stop() and the destructor release a held one,
\* having called KillAndWait(SIGTERM) on it, which signals its child.  No
\* other call touches the handle, also not the one a failed Start() left.
C28_HandleNeverDropped ==
    [][/\ nspawned' # nspawned =>
             hms_process_' = [held |-> TRUE, pid |-> nspawned']
       /\ hms_process_' # hms_process_ =>
             IF ~hms_process_.held
             THEN last'.op = "Start" /\ hms_process_'.held
             ELSE /\ last'.op \in {"Stop", "~MiniHms"}
                  /\ hms_process_' = NoProcess
                  /\ hms_process_.pid # 0 =>
                        /\ Len(last'.signals) = 1
                        /\ last'.signals[1].pid = hms_process_.pid
                        /\ last'.signals[1].sig = "SIGTERM"]_vars

\* C28 witness: the handle that a timed-out Start() left was released by a
\* Stop() that sent its child SIGTERM.
C28_FailedStartHandleStopped ==
    /\ last.op = "Stop"
    /\ last.before = "Failed"
    /\ hms_process_ = NoProcess
    /\ Len(last.signals) = 1
    /\ last.signals[1].sig = "SIGTERM"
    /\ last.signals[1].pid = nspawned


\* ---------------------------------------------------------------- C29

\* C29: when Stop() returns, with OK or with an error, no handle is held.
\* The call that follows a Stop() finds none: a Start() passes its CHECK, a
\* Pause() or a Resume() fails its CHECK and sends nothing, and a Stop()
\* returns OK, sends nothing and leaves every child as it is, also the one
\* the earlier Stop() failed to kill.
C29_StopGivesUpHandle ==
    [][/\ last'.op = "Stop" => hms_process_' = NoProcess
       /\ last.op = "Stop" =>
             /\ last'.op = "Start" => last'.result.code # "CheckFailed"
             /\ last'.op \in {"Pause", "Resume"} =>
                   last'.result.code = "CheckFailed" /\ last'.signals = <<>>
             /\ last'.op = "Stop" =>
                   /\ last'.result.code = "OK"
                   /\ last'.signals = <<>>
                   /\ procs' = procs]_vars

\* C29 witness: a Stop() after a Stop() that failed returned OK and sent no
\* signal while the child of the first is alive.
C29_SecondStopLeavesChildAlive ==
    /\ last.op = "Stop"
    /\ last.before = "Stopped"
    /\ stop_failed
    /\ last.result.code = "OK"
    /\ last.signals = <<>>
    /\ hms_process_ = NoProcess
    /\ LiveChildren # {}


\* ---------------------------------------------------------------- C30

\* C30: Pause() and Resume() change nothing but whether the held child is
\* suspended: the handle, the port, the TTL, the security configuration,
\* the written files and the launch are as before, whatever they return,
\* and the only change of a child is that of the held one between running
\* and stopped.
C30_PauseResumeFrame ==
    [][last'.op \in {"Pause", "Resume"} =>
          /\ UNCHANGED <<hms_process_, port_, notification_log_ttl_, security,
                         files, launch, nspawned>>
          /\ \A pid \in 1..MaxSpawns :
                procs'[pid] # procs[pid] =>
                   /\ pid = hms_process_.pid
                   /\ last'.result.code = "OK"
                   /\ <<procs[pid], procs'[pid]>> =
                        IF last'.op = "Pause" THEN <<"running", "stopped">>
                        ELSE <<"stopped", "running">>]_vars

\* C30 witness: a Resume() of a Paused instance with a Kerberos
\* configuration returned OK; the child runs again and the handle, the port
\* and the files are in place.
C30_ResumedWithAllInPlace ==
    /\ last.op = "Resume"
    /\ last.before = "Paused"
    /\ last.result.code = "OK"
    /\ hms_process_.held
    /\ procs[hms_process_.pid] = "running"
    /\ port_ \in Ports
    /\ keytab_file_ # ""
    /\ files.hive_site.exists /\ files.core_site.exists

=============================================================================
